---------------------------- MODULE Spec2Model ----------------------------
(***************************************************************************)
(* Dashboard LAMDEC: the React front end (App, Resumos, BuscaCDA) and the  *)
(* query engine behind /cda/search, /resumo/* and /kpis/* that it calls.   *)
(*                                                                         *)
(* Strings that are inspected character by character (numCDA, q) are       *)
(* sequences of code points; strings that are only compared for equality   *)
(* (labels, keys, tokens) are TLA+ strings.  A non-ASCII character of the  *)
(* source is written \uXXXX inside a TLA+ string.                          *)
(***************************************************************************)
EXTENDS Integers, Sequences, FiniteSets, TLC

VARIABLES
    \* the query engine
    store,        \* RecordStore: the loaded CdaRecord sequence, in load order
    srvReq,       \* the last normalized /cda/search request handled
    srvResp,      \* its response envelope {items, total}
    \* one call of trimLeadingZerosByKey
    trimArr,      \* the year series passed as arr
    trimResult,   \* what the call returned, <<>> wrapped: <<>> before the call
    \* App
    appMounted,   \* the App component has been constructed
    tab, theme, themeIconOk,
    localTheme,   \* localStorage 'theme': <<>> when none is stored, else <<value>>
    dataTheme,    \* the data-theme attribute of the document element, likewise
    themeLog,     \* history: the theme after construction and after each toggle
    lastEvent,    \* history: the event whose handler ran last
    \* Resumos
    inscricoes, inscricoesCanceladas, inscricoesQuitadas, montanteAcumulado,
    quantidadeCdas, saldoCdas, distribuicaoCdas,
    qtdEmCobrancaTotal,   \* <<>> for null, else <<total>>
    qtdModo, saldoModo, serieInscricao,
    modalOpen, modalTitle, modalKey,
    fetchPc,      \* where fetchAll stands
    lastCard,     \* history: the key of the card body clicked last
    \* BuscaCDA
    q, natureza, situacao,
    minAno, maxAno, minSaldo, maxSaldo, minScore, maxScore,   \* <<>> for '', else <<n>>
    sortBy, sortDir, page, pageSize,
    items, total, loading,
    inflight,     \* the /cda/search requests sent and not yet answered
    edits,        \* history: how many filter fields were edited
    sent          \* history: how many requests were sent

backendVars == <<store, srvReq, srvResp>>
trimVars == <<trimArr, trimResult>>
themeVars == <<theme, themeIconOk, localTheme, dataTheme, themeLog>>
summaryVars == <<inscricoes, inscricoesCanceladas, inscricoesQuitadas,
                 montanteAcumulado, quantidadeCdas, saldoCdas, distribuicaoCdas>>
modeVars == <<qtdModo, saldoModo, serieInscricao>>
modalVars == <<modalOpen, modalTitle, modalKey, lastCard>>
resumosVars == <<summaryVars, qtdEmCobrancaTotal, modeVars, modalVars, fetchPc>>
filterVars == <<q, natureza, situacao, minAno, maxAno, minSaldo, maxSaldo,
                minScore, maxScore>>
viewVars == <<sortBy, sortDir, page, pageSize>>
resultVars == <<items, total, loading>>
buscaVars == <<filterVars, viewVars, resultVars, inflight, edits, sent>>
appVars == <<appMounted, tab, themeVars, lastEvent, resumosVars, buscaVars>>

vars == <<backendVars, trimVars, appVars>>

---------------------------------------------------------------------------
(* Bounds of the model *)

MaxTotal == 25        \* SpecPage: records in the store
MaxPage == 6          \* SpecPage: highest page number requested
MaxParams == 2        \* SpecSearch: parameters of a request that differ from the defaults
MaxSerieLen == 4      \* SpecTrim: rows of a year series
MaxQuantidade == 2    \* SpecTrim: highest Quantidade of a row
MaxClicks == 3        \* SpecTheme: clicks on the theme toggle
MaxEdits == 1         \* SpecBusca: edits of filter fields
MaxRequests == 3      \* SpecBusca: search requests sent

---------------------------------------------------------------------------
(* Small helpers *)

Min(a, b) == IF a < b THEN a ELSE b
Max(a, b) == IF a > b THEN a ELSE b

\* Math.ceil(a / b) for a >= 0, b >= 1
CeilDiv(a, b) == (a + b - 1) \div b

\* An optional scalar: <<>> when absent ('' in a form field, undefined in a
\* request), <<v>> when present.
Opt(S) == {<<>>} \cup {<<v>> : v \in S}

\* str.lower() on ASCII code points
LowerChar(c) == IF c \in 65..90 THEN c + 32 ELSE c
Lower(s) == [i \in 1..Len(s) |-> LowerChar(s[i])]

\* needle in haystack (Python's `in` on strings)
IsSubstring(needle, hay) ==
    \E i \in 0..(Len(hay) - Len(needle)) :
        \A j \in 1..Len(needle) : hay[i + j] = needle[j]

\* a < b in code-point order (string comparison)
StrLess(a, b) ==
    \E k \in 1..(Min(Len(a), Len(b)) + 1) :
        /\ \A j \in 1..(k - 1) : a[j] = b[j]
        /\ \/ k = Len(a) + 1 /\ k <= Len(b)
           \/ k <= Len(a) /\ k <= Len(b) /\ a[k] < b[k]


---------------------------------------------------------------------------
(* Status codes and labels *)

\* The label of the in-collection status, 'Em cobranca' with c-cedilla
\* (U+00E7), as the query engine's interface documents it.
LabelEmCobranca == "Em cobran\\u00E7a"

\* The same literal as the front end's source holds it: the two bytes of the
\* c-cedilla appear as the two characters U+221A U+00DF.
SrcEmCobranca == "Em cobran\\u221A\\u00DFa"

\* PredicateBuilder: one situacao token (a numeric code or a label, as a
\* query-string value) to the codes it stands for; an unrecognized token
\* stands for none.
SituacaoTokenCodes(tok) ==
    CASE tok \in {"-1", "Cancelada"} -> {-1}
      [] tok \in {"0", LabelEmCobranca} -> {0}
      [] tok \in {"1", "Quitada"} -> {1}
      [] OTHER -> {}

NormalizeSituacao(tokens) == UNION {SituacaoTokenCodes(t) : t \in tokens}

\* BuscaCDA, the Situacao cell of a result row
SituacaoCell(code) ==
    IF code = -1 THEN "Cancelada" ELSE IF code = 0 THEN SrcEmCobranca ELSE "Quitada"

\* BuscaCDA.situacoes: the options of the situacao multi-select
situacoes == <<"Cancelada", SrcEmCobranca, "Quitada">>

\* BuscaCDA.naturezas: the options of the natureza multi-select
naturezas == <<"IPTU", "ISS", "ITBI", "Taxas", "Multas", "Outras">>

---------------------------------------------------------------------------
(* Query engine: PredicateBuilder, Sorter, Paginator, SearchEngine *)

RequestFields == {"q", "natureza", "situacao", "min_ano", "max_ano",
                  "min_saldo", "max_saldo", "min_score", "max_score",
                  "sort_by", "sort_dir", "page", "page_size"}

\* The request with every parameter at its documented default
DefaultRequest ==
    [q |-> <<>>, natureza |-> {}, situacao |-> {},
     min_ano |-> <<>>, max_ano |-> <<>>,
     min_saldo |-> <<>>, max_saldo |-> <<>>,
     min_score |-> <<>>, max_score |-> <<>>,
     sort_by |-> "saldo", sort_dir |-> "desc", page |-> 1, page_size |-> 20]

InRange(v, lo, hi) ==
    /\ lo = <<>> \/ v >= lo[1]
    /\ hi = <<>> \/ v <= hi[1]

\* A range test that leaves the bounds themselves out
InRangeExclusive(v, lo, hi) ==
    /\ lo = <<>> \/ v > lo[1]
    /\ hi = <<>> \/ v < hi[1]

\* A match whose year range leaves its bounds out
MatchesExclusiveBounds(rec, req) ==
    /\ req.q = <<>> \/ IsSubstring(Lower(req.q), Lower(rec.numCDA))
    /\ req.natureza = {} \/ rec.natureza \in req.natureza
    /\ req.situacao = {} \/ rec.agrupamento_situacao \in NormalizeSituacao(req.situacao)
    /\ InRangeExclusive(rec.ano, req.min_ano, req.max_ano)
    /\ InRangeExclusive(rec.valor_saldo_atualizado, req.min_saldo, req.max_saldo)
    /\ InRangeExclusive(rec.score, req.min_score, req.max_score)

\* The composite predicate of a request over one record: the conjunction of
\* the dimensions that are present
Matches(rec, req) ==
    /\ req.q = <<>> \/ IsSubstring(Lower(req.q), Lower(rec.numCDA))
    /\ req.natureza = {} \/ rec.natureza \in req.natureza
    /\ req.situacao = {} \/ rec.agrupamento_situacao \in NormalizeSituacao(req.situacao)
    /\ InRange(rec.ano, req.min_ano, req.max_ano)
    /\ InRange(rec.valor_saldo_atualizado, req.min_saldo, req.max_saldo)
    /\ InRange(rec.score, req.min_score, req.max_score)

Filter(records, req) == SelectSeq(records, LAMBDA rec : Matches(rec, req))

\* sort_by to the record field it orders by
SortKey(rec, sort_by) ==
    CASE sort_by = "ano" -> rec.ano
      [] sort_by = "score" -> rec.score
      [] OTHER -> rec.valor_saldo_atualizado

\* An order whose ties go by numCDA descending
BeforeReversed(a, b, sort_by, sort_dir) ==
    LET ka == SortKey(a, sort_by)
        kb == SortKey(b, sort_by)
    IN  IF ka # kb
        THEN IF sort_dir = "asc" THEN ka < kb ELSE ka > kb
        ELSE IF sort_dir = "asc" THEN StrLess(a.numCDA, b.numCDA)
             ELSE StrLess(b.numCDA, a.numCDA)

\* a comes before b: by the sort field in the direction asked, ties by
\* numCDA ascending
Before(a, b, sort_by, sort_dir) ==
    LET ka == SortKey(a, sort_by)
        kb == SortKey(b, sort_by)
    IN  IF ka # kb
        THEN IF sort_dir = "asc" THEN ka < kb ELSE ka > kb
        ELSE StrLess(a.numCDA, b.numCDA)

\* A record put in its place in a sequence already in the order Before
RECURSIVE InsertOrdered(_, _, _, _)
InsertOrdered(rec, ordered, sort_by, sort_dir) ==
    IF ordered = <<>>
    THEN <<rec>>
    ELSE IF Before(rec, Head(ordered), sort_by, sort_dir)
         THEN <<rec>> \o ordered
         ELSE <<Head(ordered)>>
              \o InsertOrdered(rec, Tail(ordered), sort_by, sort_dir)

\* The records of a sequence in the total order Before
RECURSIVE Sort(_, _, _)
Sort(records, sort_by, sort_dir) ==
    IF records = <<>>
    THEN <<>>
    ELSE InsertOrdered(Head(records), Sort(Tail(records), sort_by, sort_dir),
                       sort_by, sort_dir)

\* A pagination that reports the length of the page as the total
PaginateTotalOfPage(ordered, pageNo, size) ==
    LET p == Max(pageNo, 1)
        s == Max(size, 1)
        slice == SubSeq(ordered, (p - 1) * s + 1, Min(p * s, Len(ordered)))
    IN  [items |-> slice, total |-> Len(slice)]

\* One page of an ordered sequence, and the length of the whole sequence
Paginate(ordered, pageNo, size) ==
    LET p == Max(pageNo, 1)
        s == Max(size, 1)
    IN  [items |-> SubSeq(ordered, (p - 1) * s + 1, Min(p * s, Len(ordered))),
         total |-> Len(ordered)]

\* search(request) -> {items, total}: filter, then sort, then paginate
Search(records, req) ==
    Paginate(Sort(Filter(records, req), req.sort_by, req.sort_dir),
             req.page, req.page_size)

\* A page count that is one too many when the total is a multiple of the size
totalPagesFloor(count, size) == Max(1, (count \div size) + 1)

\* BuscaCDA.totalPages, from the total and the page size
totalPages(count, size) == Max(1, CeilDiv(count, size))

---------------------------------------------------------------------------
(* The record stores and the requests the query engine is checked on *)

\* Records in load order.  numCDA: "A1", "a2", "B1", "b2".  Records 1 and 2
\* tie on saldo, 1 and 3 on ano, 2 and 3 on score (scores in tenths).
Catalogue ==
    << [numCDA |-> <<65, 49>>, natureza |-> "IPTU", agrupamento_situacao |-> 0,
        ano |-> 2010, qtde_anos_idade_cda |-> 15,
        valor_saldo_atualizado |-> 100, score |-> 5],
       [numCDA |-> <<97, 50>>, natureza |-> "ISS", agrupamento_situacao |-> -1,
        ano |-> 2011, qtde_anos_idade_cda |-> 14,
        valor_saldo_atualizado |-> 100, score |-> 3],
       [numCDA |-> <<66, 49>>, natureza |-> "IPTU", agrupamento_situacao |-> 1,
        ano |-> 2010, qtde_anos_idade_cda |-> 15,
        valor_saldo_atualizado |-> 50, score |-> 3],
       [numCDA |-> <<98, 50>>, natureza |-> "ISS", agrupamento_situacao |-> 0,
        ano |-> 2012, qtde_anos_idade_cda |-> 13,
        valor_saldo_atualizado |-> 0, score |-> 9] >>

\* The records of the catalogue at the positions in idx, in load order
SubStore(idx) ==
    SelectSeq([i \in 1..Len(Catalogue) |-> i], LAMBDA i : i \in idx)

Stores ==
    {[k \in 1..Len(SubStore(idx)) |-> Catalogue[SubStore(idx)[k]]] :
        idx \in SUBSET (1..Len(Catalogue))}

\* n records "01", "02", ... that differ in numCDA and, in threes, in saldo
BulkStore(n) ==
    [i \in 1..n |->
        [numCDA |-> <<48 + (i \div 10), 48 + (i % 10)>>, natureza |-> "IPTU",
         agrupamento_situacao |-> 0, ano |-> 2010, qtde_anos_idade_cda |-> 15,
         valor_saldo_atualizado |-> i % 3, score |-> 5]]

\* The values a parameter takes when it is not at its default: "a", "B1",
\* "z" for q; codes, labels, the front end's literal and an unknown token
\* for situacao
ParamOptions ==
    [q |-> << <<97>>, <<66, 49>>, <<122>> >>,
     natureza |-> << {"IPTU"}, {"ISS", "Multas"} >>,
     situacao |-> << {"-1"}, {"Cancelada"}, {"0"}, {LabelEmCobranca},
                     {"1"}, {"Quitada"}, {"Cancelada", "1"}, {"Foo"},
                     {"Foo", "0"}, {SrcEmCobranca} >>,
     min_ano |-> << <<2010>>, <<2011>> >>,
     max_ano |-> << <<2010>>, <<2011>> >>,
     min_saldo |-> << <<50>>, <<100>> >>,
     max_saldo |-> << <<0>>, <<50>> >>,
     min_score |-> << <<3>>, <<5>> >>,
     max_score |-> << <<3>>, <<5>> >>,
     sort_by |-> <<"ano", "score">>,
     sort_dir |-> <<"asc">>,
     page |-> <<0, 2, 3>>,
     page_size |-> <<0, 1, 2>>]

\* The request that differs from the default in the fields F, field f
\* taking its option number a[f]
MakeRequest(F, a) ==
    [f \in RequestFields |->
        IF f \in F THEN ParamOptions[f][a[f]] ELSE DefaultRequest[f]]

OptionIndexes == UNION {1..Len(ParamOptions[f]) : f \in RequestFields}

Requests ==
    UNION {{MakeRequest(F, a) :
                a \in {b \in [F -> OptionIndexes] :
                          \A f \in F : b[f] <= Len(ParamOptions[f])}} :
           F \in {G \in SUBSET RequestFields : Cardinality(G) <= MaxParams}}

\* BuscaCDA: the options of the page-size select
pageSizeOptions == <<10, 20, 50, 100, 200>>

PageSizes == {0, 1, 3} \cup {pageSizeOptions[i] : i \in 1..Len(pageSizeOptions)}

NoResponse == [items |-> <<>>, total |-> -1]

---------------------------------------------------------------------------
(* Resumos: trimming a year series for display *)

\* Number(item?.[numericKey] ?? 0)
NumericField(item, numericKey) ==
    IF numericKey \in DOMAIN item THEN item[numericKey] ELSE 0

\* arr.findIndex(pred), 0-based, -1 when no element satisfies pred
FindIndex(arr, pred(_)) ==
    IF \E i \in 1..Len(arr) : pred(arr[i])
    THEN (CHOOSE i \in 1..Len(arr) :
              pred(arr[i]) /\ \A j \in 1..(i - 1) : ~pred(arr[j])) - 1
    ELSE -1

\* arr.slice(idx) for 0 <= idx
SliceFrom(arr, idx) == SubSeq(arr, idx + 1, Len(arr))

\* trimLeadingZerosByKey(arr, numericKey)
trimLeadingZerosByKey(arr, numericKey) ==
    LET idx == FindIndex(arr, LAMBDA item : NumericField(item, numericKey) > 0)
    IN  IF idx > 0 THEN SliceFrom(arr, idx) ELSE arr

\* Year series as the summaries deliver them: one row per year, years
\* ascending, Quantidade a count
YearSeries ==
    UNION {{[i \in 1..n |-> [ano |-> 2000 + i, Quantidade |-> c[i]]] :
                c \in [1..n -> 0..MaxQuantidade]} : n \in 0..MaxSerieLen}

---------------------------------------------------------------------------
(* Aggregator and KpiCalculator: the summaries behind /resumo/* and /kpis/* *)

\* How many records of a sequence satisfy P
CountWhere(records, P(_)) ==
    Cardinality({i \in 1..Len(records) : P(records[i])})

RECURSIVE SumField(_, _)
\* The sum of row[key] over the rows of a table
SumField(rows, key) ==
    IF rows = <<>> THEN 0 ELSE rows[1][key] + SumField(Tail(rows), key)

RECURSIVE SumSaldoOf(_, _)
\* The sum of valor_saldo_atualizado over the records of one natureza
SumSaldoOf(records, nat) ==
    IF records = <<>> THEN 0
    ELSE (IF records[1].natureza = nat THEN records[1].valor_saldo_atualizado ELSE 0)
         + SumSaldoOf(Tail(records), nat)

\* 100 * part / whole in whole percents, 0 of an empty whole
Percent(part, whole) == IF whole = 0 THEN 0 ELSE (100 * part) \div whole

\* The naturezas present, in order of first appearance
NaturezasPresent(records) ==
    LET firsts == SelectSeq([i \in 1..Len(records) |-> i],
                     LAMBDA i : \A j \in 1..(i - 1) :
                                   records[j].natureza # records[i].natureza)
    IN  [k \in 1..Len(firsts) |-> records[firsts[k]].natureza]

\* inscricoes, inscricoes_canceladas, inscricoes_quitadas: one row per year
\* of the observed year range, the count of the records P keeps in it
YearRows(records, P(_)) ==
    IF records = <<>> THEN <<>>
    ELSE LET anos == {records[i].ano : i \in 1..Len(records)}
             lo == CHOOSE y \in anos : \A z \in anos : y <= z
             hi == CHOOSE y \in anos : \A z \in anos : y >= z
         IN  [k \in 1..(hi - lo + 1) |->
                 [ano |-> lo + k - 1,
                  Quantidade |-> CountWhere(records,
                      LAMBDA r : r.ano = lo + k - 1 /\ P(r))]]

ResumoInscricoes(records) == YearRows(records, LAMBDA r : TRUE)
ResumoCanceladas(records) == YearRows(records, LAMBDA r : r.agrupamento_situacao = -1)
ResumoQuitadas(records) == YearRows(records, LAMBDA r : r.agrupamento_situacao = 1)

\* quantidade_cdas: the record count of each natureza present
ResumoQuantidade(records) ==
    LET nats == NaturezasPresent(records)
    IN  [k \in 1..Len(nats) |->
            [name |-> nats[k],
             Quantidade |-> CountWhere(records, LAMBDA r : r.natureza = nats[k])]]

\* saldo_cdas: the saldo sum of each natureza present
ResumoSaldo(records) ==
    LET nats == NaturezasPresent(records)
    IN  [k \in 1..Len(nats) |->
            [name |-> nats[k], Saldo |-> SumSaldoOf(records, nats[k])]]

\* distribuicao_cdas: per natureza, the share of each situacao in it
ResumoDistribuicao(records) ==
    LET nats == NaturezasPresent(records)
        share(nat, code) ==
            Percent(CountWhere(records,
                        LAMBDA r : r.natureza = nat /\ r.agrupamento_situacao = code),
                    CountWhere(records, LAMBDA r : r.natureza = nat))
    IN  [k \in 1..Len(nats) |->
            ("name" :> nats[k]) @@ (LabelEmCobranca :> share(nats[k], 0))
            @@ ("Cancelada" :> share(nats[k], -1)) @@ ("Quitada" :> share(nats[k], 1))]

\* montante_acumulado: the records by saldo descending; after each record,
\* the share of the records walked and, per natureza, the share of its saldo
\* they hold
ResumoMontante(records) ==
    LET sorted == Sort(records, "saldo", "desc")
        n == Len(records)
        nats == NaturezasPresent(records)
    IN  [k \in 1..n |->
            [c \in {"Percentual"} \cup {nats[i] : i \in 1..Len(nats)} |->
                IF c = "Percentual" THEN Percent(k, n)
                ELSE Percent(SumSaldoOf(SubSeq(sorted, 1, k), c),
                             SumSaldoOf(records, c))]]

\* volume_em_cobranca(): the count of records in collection
VolumeEmCobranca(records) ==
    CountWhere(records, LAMBDA r : r.agrupamento_situacao = 0)

---------------------------------------------------------------------------
(* BuscaCDA: state, buscar() and the request it sends *)

\* '' in a numeric input; undefined in a params object
EmptyInput == <<>>
Undefined == <<>>

\* Array.from(e.target.selectedOptions).map(o => o.value): the selected
\* options, in the order of the select
SelectedValues(options, chosen) == SelectSeq(options, LAMBDA o : o \in chosen)

\* What one render of BuscaCDA closes over
Render ==
    [q |-> q, natureza |-> natureza, situacao |-> situacao,
     minAno |-> minAno, maxAno |-> maxAno, minSaldo |-> minSaldo,
     maxSaldo |-> maxSaldo, minScore |-> minScore, maxScore |-> maxScore,
     sortBy |-> sortBy, sortDir |-> sortDir, page |-> page, pageSize |-> pageSize]

\* The render of a freshly constructed BuscaCDA (the useState initial values)
InitialRender ==
    [q |-> <<>>, natureza |-> <<>>, situacao |-> <<>>,
     minAno |-> EmptyInput, maxAno |-> EmptyInput, minSaldo |-> EmptyInput,
     maxSaldo |-> EmptyInput, minScore |-> EmptyInput, maxScore |-> EmptyInput,
     sortBy |-> "saldo", sortDir |-> "desc", page |-> 1, pageSize |-> 20]

\* A params value that treats 0 like '' (field || undefined)
NumberParamDropsZero(field) ==
    IF field = EmptyInput \/ field[1] = 0 THEN Undefined ELSE <<field[1]>>

\* field === '' ? undefined : field
NumberParam(field) == IF field = EmptyInput THEN Undefined ELSE <<field[1]>>

\* The params object buscar() builds from the render r it runs in; each value
\* <<v>>, or Undefined
BuscarParams(r) ==
    [q |-> IF r.q # <<>> THEN <<r.q>> ELSE Undefined,
     natureza |-> IF Len(r.natureza) # 0 THEN <<r.natureza>> ELSE Undefined,
     situacao |-> IF Len(r.situacao) # 0 THEN <<r.situacao>> ELSE Undefined,
     min_ano |-> NumberParam(r.minAno),
     max_ano |-> NumberParam(r.maxAno),
     min_saldo |-> NumberParam(r.minSaldo),
     max_saldo |-> NumberParam(r.maxSaldo),
     min_score |-> NumberParam(r.minScore),
     max_score |-> NumberParam(r.maxScore),
     sort_by |-> <<r.sortBy>>,
     sort_dir |-> <<r.sortDir>>,
     page |-> <<r.page>>,
     page_size |-> <<r.pageSize>>]

\* axios.get(url, { params }): the query parameters sent, a parameter whose
\* value is undefined left out
AxiosParams(params) ==
    [k \in {f \in DOMAIN params : params[f] # Undefined} |-> params[k][1]]

\* The request buscar() sends from render r
BuscarRequest(r) == AxiosParams(BuscarParams(r))

\* Request normalization: the query parameters received to the normalized
\* request of the query engine, a parameter left out at its default
NormalizeRequest(sentParams) ==
    LET has(f) == f \in DOMAIN sentParams
        range(arr) == {arr[i] : i \in 1..Len(arr)}
        bound(f) == IF has(f) THEN <<sentParams[f]>> ELSE <<>>
    IN  [q |-> IF has("q") THEN sentParams.q ELSE <<>>,
         natureza |-> IF has("natureza") THEN range(sentParams.natureza) ELSE {},
         situacao |-> IF has("situacao") THEN range(sentParams.situacao) ELSE {},
         min_ano |-> bound("min_ano"), max_ano |-> bound("max_ano"),
         min_saldo |-> bound("min_saldo"), max_saldo |-> bound("max_saldo"),
         min_score |-> bound("min_score"), max_score |-> bound("max_score"),
         sort_by |-> IF has("sort_by") THEN sentParams.sort_by ELSE "saldo",
         sort_dir |-> IF has("sort_dir") THEN sentParams.sort_dir ELSE "desc",
         page |-> IF has("page") THEN sentParams.page ELSE 1,
         page_size |-> IF has("page_size") THEN sentParams.page_size ELSE 20]

\* Every useState of BuscaCDA's form at its initial value
FormInitial ==
    /\ q = <<>> /\ natureza = <<>> /\ situacao = <<>>
    /\ minAno = EmptyInput /\ maxAno = EmptyInput
    /\ minSaldo = EmptyInput /\ maxSaldo = EmptyInput
    /\ minScore = EmptyInput /\ maxScore = EmptyInput
    /\ sortBy = "saldo" /\ sortDir = "desc" /\ page = 1 /\ pageSize = 20

\* BuscaCDA is not on screen: no state of it exists
BuscaUnmounted ==
    /\ FormInitial
    /\ items = <<>> /\ total = 0 /\ loading = FALSE
    /\ inflight = <<>> /\ edits = 0 /\ sent = 0

\* BuscaCDA has just been constructed and its effect has called buscar()
BuscaFresh ==
    /\ FormInitial
    /\ items = <<>> /\ total = 0 /\ loading = TRUE
    /\ inflight = <<BuscarRequest(InitialRender)>> /\ edits = 0 /\ sent = 1

\* The step to either of them; fresh says which
ResetBusca(fresh) ==
    /\ q' = <<>> /\ natureza' = <<>> /\ situacao' = <<>>
    /\ minAno' = EmptyInput /\ maxAno' = EmptyInput
    /\ minSaldo' = EmptyInput /\ maxSaldo' = EmptyInput
    /\ minScore' = EmptyInput /\ maxScore' = EmptyInput
    /\ sortBy' = "saldo" /\ sortDir' = "desc" /\ page' = 1 /\ pageSize' = 20
    /\ items' = <<>> /\ total' = 0 /\ loading' = fresh
    /\ inflight' = IF fresh THEN <<BuscarRequest(InitialRender)>> ELSE <<>>
    /\ edits' = 0
    /\ sent' = IF fresh THEN 1 ELSE 0

---------------------------------------------------------------------------
(* Resumos: summaries, the KPI and the chart pop-up *)

\* modalKey when no chart is chosen
NullKey == "null"

CardKeys == {"pareto", "qtd", "saldo", "dist", "serie"}

\* The title openModal is given by each card (non-ASCII characters as the
\* source holds them)
CardTitle(key) ==
    CASE key = "pareto" -> "Diagrama de Pareto do saldo de CDAs"
      [] key = "qtd" -> "Quantidade de CDAs em cobran\\u221A\\u00DFa"
      [] key = "saldo" -> "Saldo atualizado de CDAs em cobran\\u221A\\u00DFa"
      [] key = "dist" -> "Percentual de CDAs por situa\\u221A\\u00DF\\u221A\\u00A3o"
      [] key = "serie" -> "Inscri\\u221A\\u00DF\\u221A\\u00B5es na d\\u221A\\u2260vida ativa por ano"

\* qtdTotal: the sum of Number(x.Quantidade || 0) over quantidadeCdas
qtdTotal == SumField(quantidadeCdas, "Quantidade")

\* saldoTotal: the sum of Number(x.Saldo || 0) over saldoCdas
saldoTotal == SumField(saldoCdas, "Saldo")

\* A KPI that falls back on 0 as well (qtdEmCobrancaTotal || qtdTotal)
KpiVolumeOrZeroFallsBack ==
    IF qtdEmCobrancaTotal # <<>> /\ qtdEmCobrancaTotal[1] # 0
    THEN qtdEmCobrancaTotal[1] ELSE qtdTotal

\* The number the 'Volume de CDAs em cobranca' KPI formats:
\* qtdEmCobrancaTotal ?? qtdTotal
KpiVolume ==
    IF qtdEmCobrancaTotal # <<>> THEN qtdEmCobrancaTotal[1] ELSE qtdTotal

\* The series the year chart draws
inscricoesTrim == trimLeadingZerosByKey(inscricoes, "Quantidade")
canceladasTrim == trimLeadingZerosByKey(inscricoesCanceladas, "Quantidade")
quitadasTrim == trimLeadingZerosByKey(inscricoesQuitadas, "Quantidade")

serieAtual ==
    IF serieInscricao = "Canceladas" THEN canceladasTrim
    ELSE IF serieInscricao = "Quitadas" THEN quitadasTrim
    ELSE inscricoesTrim

\* Resumos is on screen
ResumosMounted == appMounted /\ tab = "resumos"

\* Resumos as constructed (pc = "summaries": fetchAll has sent its seven
\* requests) or not on screen (pc = "unmounted")
ResumosFresh(pc) ==
    /\ inscricoes = <<>> /\ inscricoesCanceladas = <<>> /\ inscricoesQuitadas = <<>>
    /\ montanteAcumulado = <<>> /\ quantidadeCdas = <<>> /\ saldoCdas = <<>>
    /\ distribuicaoCdas = <<>>
    /\ qtdEmCobrancaTotal = <<>>
    /\ qtdModo = "percentual" /\ saldoModo = "percentual"
    /\ serieInscricao = "Inscritas"
    /\ modalOpen = FALSE /\ modalTitle = "" /\ modalKey = NullKey
    /\ fetchPc = pc
    /\ lastCard = NullKey

\* The step to either of them
ResetResumos(pc) ==
    /\ inscricoes' = <<>> /\ inscricoesCanceladas' = <<>> /\ inscricoesQuitadas' = <<>>
    /\ montanteAcumulado' = <<>> /\ quantidadeCdas' = <<>> /\ saldoCdas' = <<>>
    /\ distribuicaoCdas' = <<>>
    /\ qtdEmCobrancaTotal' = <<>>
    /\ qtdModo' = "percentual" /\ saldoModo' = "percentual"
    /\ serieInscricao' = "Inscritas"
    /\ modalOpen' = FALSE /\ modalTitle' = "" /\ modalKey' = NullKey
    /\ fetchPc' = pc
    /\ lastCard' = NullKey

\* What a Resumos step leaves alone
ResumosFrame ==
    UNCHANGED <<backendVars, trimVars, appMounted, tab, themeVars, buscaVars>>

\* fetchAll: the seven summaries have arrived, the KPI request goes out
SummariesLoaded ==
    /\ ResumosMounted /\ fetchPc = "summaries"
    /\ inscricoes' = ResumoInscricoes(store)
    /\ inscricoesCanceladas' = ResumoCanceladas(store)
    /\ inscricoesQuitadas' = ResumoQuitadas(store)
    /\ montanteAcumulado' = ResumoMontante(store)
    /\ quantidadeCdas' = ResumoQuantidade(store)
    /\ saldoCdas' = ResumoSaldo(store)
    /\ distribuicaoCdas' = ResumoDistribuicao(store)
    /\ fetchPc' = "kpi"
    /\ lastEvent' = "summaries_loaded"
    /\ UNCHANGED <<qtdEmCobrancaTotal, modeVars, modalVars>>
    /\ ResumosFrame

\* fetchAll: one of the seven requests failed, Promise.all rejects
SummariesFailed ==
    /\ ResumosMounted /\ fetchPc = "summaries"
    /\ fetchPc' = "summaries_failed"
    /\ lastEvent' = "summaries_failed"
    /\ UNCHANGED <<summaryVars, qtdEmCobrancaTotal, modeVars, modalVars>>
    /\ ResumosFrame

\* fetchAll: /kpis/volume_em_cobranca has answered
KpiLoaded ==
    /\ ResumosMounted /\ fetchPc = "kpi"
    /\ qtdEmCobrancaTotal' = <<VolumeEmCobranca(store)>>
    /\ fetchPc' = "done"
    /\ lastEvent' = "kpi_loaded"
    /\ UNCHANGED <<summaryVars, modeVars, modalVars>>
    /\ ResumosFrame

\* fetchAll: /kpis/volume_em_cobranca failed, the catch keeps the fallback
KpiFailed ==
    /\ ResumosMounted /\ fetchPc = "kpi"
    /\ fetchPc' = "kpi_failed"
    /\ lastEvent' = "kpi_failed"
    /\ UNCHANGED <<summaryVars, qtdEmCobrancaTotal, modeVars, modalVars>>
    /\ ResumosFrame

\* An openModal that does not set the key
openModalKeepsKey(title, key) ==
    /\ modalTitle' = title
    /\ modalKey' = modalKey
    /\ modalOpen' = TRUE

\* openModal(title, key)
openModal(title, key) ==
    /\ modalTitle' = title
    /\ modalKey' = key
    /\ modalOpen' = TRUE

\* A click on the body of card key (Section.onBodyClick)
ClickCardBody(key) ==
    /\ ResumosMounted
    /\ openModal(CardTitle(key), key)
    /\ lastCard' = key
    /\ lastEvent' = "card_body"
    /\ UNCHANGED <<summaryVars, qtdEmCobrancaTotal, modeVars, fetchPc>>
    /\ ResumosFrame

\* A click on a tab button in the header of the qtd, saldo or serie card
ClickCardTab(card, value) ==
    /\ ResumosMounted
    /\ \/ card = "qtd" /\ value \in {"percentual", "absoluto"}
          /\ qtdModo' = value /\ UNCHANGED <<saldoModo, serieInscricao>>
       \/ card = "saldo" /\ value \in {"percentual", "absoluto"}
          /\ saldoModo' = value /\ UNCHANGED <<qtdModo, serieInscricao>>
       \/ card = "serie" /\ value \in {"Inscritas", "Canceladas", "Quitadas"}
          /\ serieInscricao' = value /\ UNCHANGED <<qtdModo, saldoModo>>
    /\ lastEvent' = "card_tab"
    /\ UNCHANGED <<summaryVars, qtdEmCobrancaTotal, modalVars, fetchPc>>
    /\ ResumosFrame

\* onEsc: a keydown on the window
KeyDown(key) ==
    /\ ResumosMounted
    /\ modalOpen' = IF key = "Escape" THEN FALSE ELSE modalOpen
    /\ lastEvent' = IF key = "Escape" THEN "key_escape" ELSE "key_other"
    /\ UNCHANGED <<summaryVars, qtdEmCobrancaTotal, modeVars, modalTitle,
                   modalKey, lastCard, fetchPc>>
    /\ ResumosFrame

\* Modal.onClose as Resumos passes it
onClose ==
    /\ modalOpen' = FALSE
    /\ modalKey' = NullKey

\* A click on the overlay, outside the modal
ClickOverlay ==
    /\ ResumosMounted /\ modalOpen
    /\ onClose
    /\ lastEvent' = "overlay"
    /\ UNCHANGED <<summaryVars, qtdEmCobrancaTotal, modeVars, modalTitle,
                   lastCard, fetchPc>>
    /\ ResumosFrame

\* A click on the modal's close button; the click then stops at the modal
ClickModalClose ==
    /\ ResumosMounted /\ modalOpen
    /\ onClose
    /\ lastEvent' = "modal_close"
    /\ UNCHANGED <<summaryVars, qtdEmCobrancaTotal, modeVars, modalTitle,
                   lastCard, fetchPc>>
    /\ ResumosFrame

\* A click inside the modal, on its header or chart: stopPropagation
ClickModalInside ==
    /\ ResumosMounted /\ modalOpen
    /\ lastEvent' = "modal_inside"
    /\ UNCHANGED <<summaryVars, qtdEmCobrancaTotal, modeVars, modalVars, fetchPc>>
    /\ ResumosFrame

\* A click on a tab button of SerieModal, inside the modal
ClickModalSerieTab(value) ==
    /\ ResumosMounted /\ modalOpen /\ modalKey = "serie"
    /\ value \in {"Inscritas", "Canceladas", "Quitadas"}
    /\ serieInscricao' = value
    /\ lastEvent' = "modal_tab"
    /\ UNCHANGED <<summaryVars, qtdEmCobrancaTotal, qtdModo, saldoModo,
                   modalVars, fetchPc>>
    /\ ResumosFrame

---------------------------------------------------------------------------
(* App: tabs and the theme *)

\* What localStorage may hold under 'theme': nothing, a theme, an empty
\* string, something else
StoredThemes == {<<>>, <<"dark">>, <<"light">>, <<"">>, <<"blue">>}

\* localStorage.getItem('theme') || 'dark'
InitialTheme(stored) ==
    IF stored = <<>> \/ stored[1] = "" THEN "dark" ELSE stored[1]

\* A toggle that leaves a light theme light
NextThemeSticky(t) == IF t = "dark" THEN "light" ELSE t

\* t => (t === 'dark' ? 'light' : 'dark')
NextTheme(t) == IF t = "dark" THEN "light" ELSE "dark"

\* The effect on [theme]: the attribute and the stored value follow t
ThemeEffect(t) ==
    /\ dataTheme' = <<t>>
    /\ localTheme' = <<t>>

\* App is constructed and rendered: the Resumos tab is shown
MountApp ==
    /\ ~appMounted
    /\ appMounted' = TRUE
    /\ tab' = "resumos"
    /\ theme' = InitialTheme(localTheme)
    /\ themeIconOk' = TRUE
    /\ ThemeEffect(InitialTheme(localTheme))
    /\ themeLog' = <<InitialTheme(localTheme)>>
    /\ lastEvent' = "mount"
    /\ ResetResumos("summaries")
    /\ UNCHANGED <<backendVars, trimVars, buscaVars>>

\* A click on the theme toggle of the header
ToggleTheme ==
    /\ appMounted
    /\ Len(themeLog) <= MaxClicks
    /\ theme' = NextTheme(theme)
    /\ ThemeEffect(NextTheme(theme))
    /\ themeLog' = Append(themeLog, NextTheme(theme))
    /\ lastEvent' = "toggle_theme"
    /\ UNCHANGED <<backendVars, trimVars, appMounted, tab, themeIconOk,
                   resumosVars, buscaVars>>

\* The theme icon failed to load
IconError ==
    /\ appMounted /\ themeIconOk
    /\ themeIconOk' = FALSE
    /\ lastEvent' = "icon_error"
    /\ UNCHANGED <<backendVars, trimVars, appMounted, tab, theme, localTheme,
                   dataTheme, themeLog, resumosVars, buscaVars>>

\* A click on a tab of the header: the other component is constructed, the
\* one shown goes away with its state
ClickTab(t) ==
    /\ appMounted
    /\ tab' = t
    /\ lastEvent' = "click_tab"
    /\ IF t = tab THEN UNCHANGED <<resumosVars, buscaVars>>
       ELSE IF t = "busca" THEN ResetResumos("unmounted") /\ ResetBusca(TRUE)
       ELSE ResetResumos("summaries") /\ ResetBusca(FALSE)
    /\ UNCHANGED <<backendVars, trimVars, appMounted, themeVars>>

\* App is not constructed yet
AppUnmounted ==
    /\ appMounted = FALSE /\ tab = "resumos"
    /\ theme = "" /\ themeIconOk = TRUE /\ dataTheme = <<>> /\ themeLog = <<>>
    /\ lastEvent = "none"
    /\ ResumosFresh("unmounted")
    /\ BuscaUnmounted

\* App as constructed over an empty localStorage, showing tab t
AppShowing(t) ==
    /\ appMounted = TRUE /\ tab = t
    /\ theme = "dark" /\ themeIconOk = TRUE
    /\ localTheme = <<"dark">> /\ dataTheme = <<"dark">> /\ themeLog = <<"dark">>
    /\ lastEvent = "mount"

\* No front end is running
AppIdle == AppUnmounted /\ localTheme = <<>>

---------------------------------------------------------------------------
(* BuscaCDA: the handlers of the form, the pager and the responses *)

\* BuscaCDA is on screen
BuscaMounted == appMounted /\ tab = "busca"

\* What a BuscaCDA step leaves alone; a handler records its event in
\* lastEvent, an answer or a failure of the network leaves the last one
BuscaFrame ==
    UNCHANGED <<backendVars, trimVars, appMounted, tab, themeVars, resumosVars>>

\* What the user types or picks in the model
QInputs == {<<>>, <<48>>}
NaturezaChoices == {"IPTU"}
SituacaoChoices == {situacoes[2]}
SortByChoices == {"saldo", "ano"}
SortDirChoices == {"asc", "desc"}
PageSizeChoices == {pageSizeOptions[1], pageSizeOptions[2]}
NumberInputs == {EmptyInput, <<0>>, <<2010>>}
NumberFields == {"minAno", "maxAno", "minSaldo", "maxSaldo", "minScore", "maxScore"}

\* buscar() called from render r, count times over the renders rs: the
\* requests go out in that order and the table shows 'Carregando...'
SendRequests(rs) ==
    /\ sent + Len(rs) <= MaxRequests
    /\ inflight' = inflight \o [k \in 1..Len(rs) |-> BuscarRequest(rs[k])]
    /\ loading' = TRUE
    /\ sent' = sent + Len(rs)
    /\ UNCHANGED <<items, total>>

\* onChange of the numCDA input
SetQ(v) ==
    /\ BuscaMounted /\ edits < MaxEdits /\ v # q
    /\ q' = v
    /\ edits' = edits + 1
    /\ UNCHANGED <<natureza, situacao, minAno, maxAno, minSaldo, maxSaldo,
                   minScore, maxScore, viewVars, resultVars, inflight, sent>>
    /\ lastEvent' = "set_q"
    /\ BuscaFrame

\* onChange of the natureza multi-select
SetNatureza(chosen) ==
    /\ BuscaMounted /\ edits < MaxEdits
    /\ SelectedValues(naturezas, chosen) # natureza
    /\ natureza' = SelectedValues(naturezas, chosen)
    /\ edits' = edits + 1
    /\ UNCHANGED <<q, situacao, minAno, maxAno, minSaldo, maxSaldo,
                   minScore, maxScore, viewVars, resultVars, inflight, sent>>
    /\ lastEvent' = "set_natureza"
    /\ BuscaFrame

\* onChange of the situacao multi-select
SetSituacao(chosen) ==
    /\ BuscaMounted /\ edits < MaxEdits
    /\ SelectedValues(situacoes, chosen) # situacao
    /\ situacao' = SelectedValues(situacoes, chosen)
    /\ edits' = edits + 1
    /\ UNCHANGED <<q, natureza, minAno, maxAno, minSaldo, maxSaldo,
                   minScore, maxScore, viewVars, resultVars, inflight, sent>>
    /\ lastEvent' = "set_situacao"
    /\ BuscaFrame

\* onChange of one of the six numeric inputs: '' stays '', anything else
\* becomes a number
SetNumberInput(field, v) ==
    /\ BuscaMounted /\ edits < MaxEdits
    /\ Render[field] # v
    /\ minAno' = IF field = "minAno" THEN v ELSE minAno
    /\ maxAno' = IF field = "maxAno" THEN v ELSE maxAno
    /\ minSaldo' = IF field = "minSaldo" THEN v ELSE minSaldo
    /\ maxSaldo' = IF field = "maxSaldo" THEN v ELSE maxSaldo
    /\ minScore' = IF field = "minScore" THEN v ELSE minScore
    /\ maxScore' = IF field = "maxScore" THEN v ELSE maxScore
    /\ edits' = edits + 1
    /\ UNCHANGED <<q, natureza, situacao, viewVars, resultVars, inflight, sent>>
    /\ lastEvent' = "set_number"
    /\ BuscaFrame

\* onChange of the sort field select; the effect on [sortBy, sortDir, page,
\* pageSize] then calls buscar() in the new render
SetSortBy(v) ==
    /\ BuscaMounted /\ v # sortBy
    /\ sortBy' = v
    /\ SendRequests(<<[Render EXCEPT !.sortBy = v]>>)
    /\ UNCHANGED <<filterVars, sortDir, page, pageSize, edits>>
    /\ lastEvent' = "set_sort_by"
    /\ BuscaFrame

\* onChange of the sort direction select, and the effect
SetSortDir(v) ==
    /\ BuscaMounted /\ v # sortDir
    /\ sortDir' = v
    /\ SendRequests(<<[Render EXCEPT !.sortDir = v]>>)
    /\ UNCHANGED <<filterVars, sortBy, page, pageSize, edits>>
    /\ lastEvent' = "set_sort_dir"
    /\ BuscaFrame

\* A click on Anterior (disabled on page 1), and the effect
ClickAnterior ==
    /\ BuscaMounted /\ ~(page <= 1)
    /\ page' = Max(1, page - 1)
    /\ SendRequests(<<[Render EXCEPT !.page = Max(1, page - 1)]>>)
    /\ UNCHANGED <<filterVars, sortBy, sortDir, pageSize, edits>>
    /\ lastEvent' = "anterior"
    /\ BuscaFrame

\* A click on Proxima (disabled on the last page), and the effect
ClickProxima ==
    /\ BuscaMounted /\ ~(page >= totalPages(total, pageSize))
    /\ page' = Min(totalPages(total, pageSize), page + 1)
    /\ SendRequests(<<[Render EXCEPT
                          !.page = Min(totalPages(total, pageSize), page + 1)]>>)
    /\ UNCHANGED <<filterVars, sortBy, sortDir, pageSize, edits>>
    /\ lastEvent' = "proxima"
    /\ BuscaFrame

\* onChange of the page-size select: setPageSize, setPage(1), and the effect
SetPageSize(size) ==
    /\ BuscaMounted /\ size # pageSize
    /\ pageSize' = size
    /\ page' = 1
    /\ SendRequests(<<[Render EXCEPT !.pageSize = size, !.page = 1]>>)
    /\ UNCHANGED <<filterVars, sortBy, sortDir, edits>>
    /\ lastEvent' = "set_page_size"
    /\ BuscaFrame

\* A click on Buscar: setPage(1) and buscar() in the render that was
\* clicked; when the page changes, the effect calls buscar() once more
ClickBuscar ==
    /\ BuscaMounted
    /\ page' = 1
    /\ SendRequests(IF page # 1
                    THEN <<Render, [Render EXCEPT !.page = 1]>>
                    ELSE <<Render>>)
    /\ UNCHANGED <<filterVars, sortBy, sortDir, pageSize, edits>>
    /\ lastEvent' = "buscar"
    /\ BuscaFrame

\* inflight without its i-th request
WithoutRequest(i) ==
    SubSeq(inflight, 1, i - 1) \o SubSeq(inflight, i + 1, Len(inflight))

\* The response to the i-th request in flight arrives: buscar() resumes
SearchResponds(i) ==
    /\ BuscaMounted /\ i \in 1..Len(inflight)
    /\ LET res == Search(store, NormalizeRequest(inflight[i]))
       IN  /\ items' = res.items
           /\ total' = res.total
    /\ loading' = FALSE
    /\ inflight' = WithoutRequest(i)
    /\ UNCHANGED <<filterVars, viewVars, edits, sent>>
    /\ UNCHANGED lastEvent
    /\ BuscaFrame

\* The i-th request in flight fails: buscar() throws at its await
SearchFails(i) ==
    /\ BuscaMounted /\ i \in 1..Len(inflight)
    /\ inflight' = WithoutRequest(i)
    /\ UNCHANGED <<filterVars, viewVars, resultVars, edits, sent>>
    /\ UNCHANGED lastEvent
    /\ BuscaFrame

---------------------------------------------------------------------------
(* The query engine answering one request *)

\* No call of trimLeadingZerosByKey is under way
TrimIdle == trimArr = <<>> /\ trimResult = <<>>

\* The query engine holds no records and has no request
BackendIdle == store = <<>> /\ srvReq = DefaultRequest /\ srvResp = NoResponse

InitSearch ==
    /\ store \in Stores
    /\ srvReq \in Requests
    /\ srvResp = NoResponse
    /\ TrimIdle
    /\ AppIdle

InitPage ==
    /\ \E n \in 0..MaxTotal : store = BulkStore(n)
    /\ \E p \in 0..MaxPage, s \in PageSizes :
          srvReq = [DefaultRequest EXCEPT !.page = p, !.page_size = s]
    /\ srvResp = NoResponse
    /\ TrimIdle
    /\ AppIdle

\* GET /cda/search
HandleSearch ==
    /\ srvResp = NoResponse
    /\ srvResp' = Search(store, srvReq)
    /\ UNCHANGED <<store, srvReq, trimVars, appVars>>

SpecSearch == InitSearch /\ [][HandleSearch]_vars

SpecPage == InitPage /\ [][HandleSearch]_vars

Answered == srvResp # NoResponse

---------------------------------------------------------------------------
(* One call of trimLeadingZerosByKey *)

InitTrim ==
    /\ trimArr \in YearSeries
    /\ trimResult = <<>>
    /\ BackendIdle
    /\ AppIdle

\* Resumos.inscricoesTrim, canceladasTrim, quitadasTrim (useMemo)
TrimSerie ==
    /\ trimResult = <<>>
    /\ trimResult' = <<trimLeadingZerosByKey(trimArr, "Quantidade")>>
    /\ UNCHANGED <<trimArr, backendVars, appVars>>

SpecTrim == InitTrim /\ [][TrimSerie]_vars

---------------------------------------------------------------------------
(* App with its theme; Resumos over a record store *)

InitTheme ==
    /\ localTheme \in StoredThemes
    /\ AppUnmounted
    /\ BackendIdle
    /\ TrimIdle

NextTheme_ ==
    \/ MountApp
    \/ ToggleTheme
    \/ IconError
    \/ \E t \in {"resumos", "busca"} : ClickTab(t)

SpecTheme == InitTheme /\ [][NextTheme_]_vars

InitResumos ==
    /\ store \in Stores
    /\ srvReq = DefaultRequest /\ srvResp = NoResponse
    /\ TrimIdle
    /\ AppShowing("resumos")
    /\ ResumosFresh("summaries")
    /\ BuscaUnmounted

NextResumos ==
    \/ SummariesLoaded
    \/ SummariesFailed
    \/ KpiLoaded
    \/ KpiFailed
    \/ \E key \in CardKeys : ClickCardBody(key)
    \/ \E card \in {"qtd", "saldo", "serie"},
          value \in {"percentual", "absoluto", "Inscritas", "Canceladas", "Quitadas"} :
            ClickCardTab(card, value)
    \/ \E key \in {"Escape", "Enter"} : KeyDown(key)
    \/ ClickOverlay
    \/ ClickModalClose
    \/ ClickModalInside
    \/ \E value \in {"Inscritas", "Canceladas", "Quitadas"} : ClickModalSerieTab(value)
    \/ \E t \in {"resumos", "busca"} : ClickTab(t)

SpecResumos == InitResumos /\ [][NextResumos]_vars

---------------------------------------------------------------------------
(* BuscaCDA over a record store *)

\* A store with one record more than the default page holds
BuscaStore == BulkStore(InitialRender.pageSize + 1)

InitBusca ==
    /\ store = BuscaStore
    /\ srvReq = DefaultRequest /\ srvResp = NoResponse
    /\ TrimIdle
    /\ AppShowing("busca")
    /\ ResumosFresh("unmounted")
    /\ BuscaFresh

NextBusca ==
    \/ \E v \in QInputs : SetQ(v)
    \/ \E chosen \in SUBSET NaturezaChoices : SetNatureza(chosen)
    \/ \E chosen \in SUBSET SituacaoChoices : SetSituacao(chosen)
    \/ \E field \in NumberFields, v \in NumberInputs : SetNumberInput(field, v)
    \/ \E v \in SortByChoices : SetSortBy(v)
    \/ \E v \in SortDirChoices : SetSortDir(v)
    \/ ClickAnterior
    \/ ClickProxima
    \/ \E size \in PageSizeChoices : SetPageSize(size)
    \/ ClickBuscar
    \/ \E i \in 1..MaxRequests : SearchResponds(i)
    \/ \E i \in 1..MaxRequests : SearchFails(i)

SpecBusca == InitBusca /\ [][NextBusca]_vars

\* BuscaCDA over a network that answers every request, in any order
NextBuscaAnswered ==
    \/ \E v \in QInputs : SetQ(v)
    \/ \E chosen \in SUBSET NaturezaChoices : SetNatureza(chosen)
    \/ \E chosen \in SUBSET SituacaoChoices : SetSituacao(chosen)
    \/ \E field \in NumberFields, v \in NumberInputs : SetNumberInput(field, v)
    \/ \E v \in SortByChoices : SetSortBy(v)
    \/ \E v \in SortDirChoices : SetSortDir(v)
    \/ ClickAnterior
    \/ ClickProxima
    \/ \E size \in PageSizeChoices : SetPageSize(size)
    \/ ClickBuscar
    \/ \E i \in 1..MaxRequests : SearchResponds(i)

SpecBuscaAnswered == InitBusca /\ [][NextBuscaAnswered]_vars

---------------------------------------------------------------------------
(* buscar() over the forms the user can have filled in *)

\* A form filled in while no request got an answer: the request of the
\* mount and those of the sort and page-size changes have failed
InitBuscar ==
    /\ store = BuscaStore
    /\ srvReq = DefaultRequest /\ srvResp = NoResponse
    /\ TrimIdle
    /\ AppShowing("busca")
    /\ ResumosFresh("unmounted")
    /\ q \in QInputs
    /\ natureza \in {SelectedValues(naturezas, c) : c \in SUBSET NaturezaChoices}
    /\ situacao \in {SelectedValues(situacoes, c) : c \in SUBSET SituacaoChoices}
    /\ minAno \in NumberInputs /\ maxAno \in NumberInputs
    /\ minSaldo \in NumberInputs /\ maxSaldo \in NumberInputs
    /\ minScore \in NumberInputs /\ maxScore \in NumberInputs
    /\ sortBy \in SortByChoices /\ sortDir \in SortDirChoices
    /\ page = 1 /\ pageSize \in PageSizeChoices
    /\ items = <<>> /\ total = 0 /\ loading = TRUE
    /\ inflight = <<>> /\ edits = 0 /\ sent = 1

\* One click on Buscar
BuscarOnce == inflight = <<>> /\ ClickBuscar

SpecBuscar == InitBuscar /\ [][BuscarOnce]_vars

---------------------------------------------------------------------------
(* Claims about the query engine *)

\* C1: for page p >= 1 and page_size s >= 1 over a filtered result of length
\* total, the page holds min(s, total - (p-1)*s) items when that is >= 0 and
\* none otherwise, the total is reported unchanged, and every page
\* 1..totalPages the front end computes is non-empty when total > 0.
C1_PageLength ==
    LET p == srvReq.page
        s == srvReq.page_size
        n == Len(store)
        rest == n - (p - 1) * s
    IN  (Answered /\ p >= 1 /\ s >= 1) =>
            /\ srvResp.total = n
            /\ Len(srvResp.items) = (IF rest >= 0 THEN Min(s, rest) ELSE 0)
            /\ (n > 0 /\ p \in 1..totalPages(srvResp.total, s))
                    => srvResp.items # <<>>

\* C1 witness: page 5 of size 20 over 12 records has been answered
C1_Witness ==
    /\ Answered
    /\ srvReq.page = 5 /\ srvReq.page_size = 20 /\ Len(store) = 12
    /\ srvResp.items = <<>> /\ srvResp.total = 12

\* C1 witness of the last page: 20 records in pages of 10, page 2 answered
C1_WitnessLastPage ==
    /\ Answered
    /\ srvReq.page = 2 /\ srvReq.page_size = 10 /\ Len(store) = 20
    /\ Len(srvResp.items) = 10

\* One record against each dimension of a request, stated dimension by
\* dimension
SatisfiesQ(rec) ==
    \E i \in 0..(Len(rec.numCDA) - Len(srvReq.q)) :
        \A j \in 1..Len(srvReq.q) :
            LowerChar(rec.numCDA[i + j]) = LowerChar(srvReq.q[j])

SatisfiesSituacao(rec) ==
    \/ rec.agrupamento_situacao = -1 /\ srvReq.situacao \cap {"-1", "Cancelada"} # {}
    \/ rec.agrupamento_situacao = 0 /\ srvReq.situacao \cap {"0", LabelEmCobranca} # {}
    \/ rec.agrupamento_situacao = 1 /\ srvReq.situacao \cap {"1", "Quitada"} # {}

SatisfiesPresent(rec) ==
    /\ srvReq.q # <<>> => SatisfiesQ(rec)
    /\ srvReq.natureza # {} => rec.natureza \in srvReq.natureza
    /\ srvReq.situacao # {} => SatisfiesSituacao(rec)
    /\ srvReq.min_ano # <<>> => rec.ano >= srvReq.min_ano[1]
    /\ srvReq.max_ano # <<>> => rec.ano <= srvReq.max_ano[1]
    /\ srvReq.min_saldo # <<>> => rec.valor_saldo_atualizado >= srvReq.min_saldo[1]
    /\ srvReq.max_saldo # <<>> => rec.valor_saldo_atualizado <= srvReq.max_saldo[1]
    /\ srvReq.min_score # <<>> => rec.score >= srvReq.min_score[1]
    /\ srvReq.max_score # <<>> => rec.score <= srvReq.max_score[1]

SatisfyingRecords ==
    {rec \in {store[i] : i \in 1..Len(store)} : SatisfiesPresent(rec)}

\* C2: the total of a search is the number of records that satisfy the
\* filter, whatever page, page_size, sort_by and sort_dir come with it.
C2_TotalIsFilterCount ==
    Answered =>
        /\ srvResp.total = Cardinality(SatisfyingRecords)
        /\ \A p \in 0..3, s \in 0..3, sb \in {"saldo", "ano", "score"},
              sd \in {"asc", "desc"} :
                Search(store, [srvReq EXCEPT !.page = p, !.page_size = s,
                                             !.sort_by = sb, !.sort_dir = sd]).total
                    = srvResp.total

\* C2 witness: a page that holds fewer records than the filter matches
C2_Witness ==
    /\ Answered
    /\ srvReq.natureza # {}
    /\ srvResp.total = 2
    /\ Len(srvResp.items) = 1

\* C3: every item satisfies every filter dimension that is present, and a
\* dimension that is absent (or an empty set) excludes no record: each record
\* that satisfies the present dimensions is in the result.
C3_ConjunctionOfPresent ==
    Answered =>
        /\ \A k \in 1..Len(srvResp.items) : SatisfiesPresent(srvResp.items[k])
        /\ LET all == Search(store, [srvReq EXCEPT !.page = 1,
                                        !.page_size = Len(store) + 1]).items
           IN  SatisfyingRecords \subseteq {all[k] : k \in 1..Len(all)}

\* C3 witness: two dimensions are present, one record passes both and
\* another record of the store fails one
C3_Witness ==
    /\ Answered
    /\ srvReq.natureza # {} /\ srvReq.min_saldo # <<>>
    /\ Len(srvResp.items) = 1
    /\ Len(store) = 4

\* C4: label and code are one bijection used in both directions: a search by
\* a label L of {Cancelada, Em cobranca, Quitada} returns what the search by
\* its code -1, 0, 1 returns, and the results table renders every row of it
\* with Situacao = L.
LabelCode(L) ==
    CASE L = "Cancelada" -> "-1" [] L = LabelEmCobranca -> "0" [] L = "Quitada" -> "1"

C4_LabelCodeBijection ==
    \A L \in {"Cancelada", LabelEmCobranca, "Quitada"} :
        (Answered /\ srvReq.situacao = {L}) =>
            /\ srvResp = Search(store, [srvReq EXCEPT !.situacao = {LabelCode(L)}])
            /\ \A k \in 1..Len(srvResp.items) :
                  SituacaoCell(srvResp.items[k].agrupamento_situacao) = L

\* C5: records with equal sort-field values come in numCDA ascending order
\* for both directions, so the items and their order are fixed by the request
\* and the records alone (the load order of the store has no say).
ReverseSeq(seq) == [i \in 1..Len(seq) |-> seq[Len(seq) + 1 - i]]

RequestSortField(rec) ==
    IF srvReq.sort_by = "ano" THEN rec.ano
    ELSE IF srvReq.sort_by = "score" THEN rec.score
    ELSE rec.valor_saldo_atualizado

C5_TieBreakByNumCDA ==
    Answered =>
        /\ \A i, j \in 1..Len(srvResp.items) :
              i < j =>
                LET a == srvResp.items[i]
                    b == srvResp.items[j]
                IN  /\ srvReq.sort_dir = "asc" => RequestSortField(a) <= RequestSortField(b)
                    /\ srvReq.sort_dir = "desc" => RequestSortField(a) >= RequestSortField(b)
                    /\ RequestSortField(a) = RequestSortField(b)
                          => StrLess(a.numCDA, b.numCDA)
        /\ Search(ReverseSeq(store), srvReq) = srvResp

\* C5 witness: a descending sort returned two records that tie on the sort
\* field
C5_Witness ==
    /\ Answered
    /\ srvReq.sort_dir = "desc"
    /\ \E i, j \in 1..Len(srvResp.items) :
          /\ i < j
          /\ RequestSortField(srvResp.items[i]) = RequestSortField(srvResp.items[j])

---------------------------------------------------------------------------
(* Claims about the trimmed year series *)

Trimmed == trimResult # <<>>

HasPositive(arr) == \E i \in 1..Len(arr) : arr[i].Quantidade > 0

\* The rows of arr from its first row with Quantidade > 0 on (none when no
\* row has one)
FromFirstPositive(arr) ==
    LET pos == {i \in 1..Len(arr) : arr[i].Quantidade > 0}
    IN  IF pos = {} THEN <<>>
        ELSE SubSeq(arr, CHOOSE f \in pos : \A g \in pos : f <= g, Len(arr))

\* C6 as stated: the displayed series is the input without its leading zero
\* rows, that is the suffix from the first row with Quantidade > 0, and a
\* non-empty output never starts with a zero row.
C6_TrimRemovesAllLeadingZeros ==
    Trimmed =>
        /\ trimResult[1] = FromFirstPositive(trimArr)
        /\ trimResult[1] # <<>> => trimResult[1][1].Quantidade > 0

\* C6, what trimLeadingZerosByKey does: when some row has Quantidade > 0 the
\* displayed series is the
\* suffix of the input from the first such row (interior and trailing zero
\* rows kept, in order), so it starts with a non-zero row; when no row has
\* Quantidade > 0 the series is displayed unchanged, zero rows included.
C6_TrimToFirstPositive ==
    Trimmed =>
        /\ HasPositive(trimArr) =>
              /\ trimResult[1] = FromFirstPositive(trimArr)
              /\ trimResult[1][1].Quantidade > 0
        /\ ~HasPositive(trimArr) => trimResult[1] = trimArr

\* C6 witness: a leading zero row was dropped, the zero rows after the first
\* non-zero row kept
C6_Witness ==
    /\ Trimmed
    /\ Len(trimArr) = 4
    /\ trimArr[1].Quantidade = 0 /\ trimArr[2].Quantidade > 0
    /\ trimArr[3].Quantidade = 0 /\ trimArr[4].Quantidade = 0
    /\ Len(trimResult[1]) = 3

---------------------------------------------------------------------------
(* Claims about Resumos and App *)

\* C7: once the seven summaries have loaded, the KPI shows the total of
\* /kpis/volume_em_cobranca (the count of records with agrupamento_situacao
\* = 0), also when it is 0; it shows the fallback, the sum of Quantidade
\* over the quantidade_cdas rows, only while that request is pending or
\* after it failed.
C7_KpiVolume ==
    (ResumosMounted /\ fetchPc \in {"kpi", "kpi_failed", "done"}) =>
        /\ fetchPc = "done" =>
              KpiVolume = Cardinality({i \in 1..Len(store) :
                                          store[i].agrupamento_situacao = 0})
        /\ fetchPc \in {"kpi", "kpi_failed"} =>
              KpiVolume = SumField(ResumoQuantidade(store), "Quantidade")
        /\ qtdEmCobrancaTotal = <<>> <=> fetchPc \in {"kpi", "kpi_failed"}

\* C7 witness: the KPI request answered 0 over a store that holds records,
\* and the KPI shows 0
C7_Witness ==
    /\ ResumosMounted /\ fetchPc = "done"
    /\ Len(store) > 0
    /\ qtdEmCobrancaTotal = <<0>>
    /\ KpiVolume = 0

ModalOpensOnCardClick ==
    [][lastEvent' = "card_body" =>
          /\ modalOpen'
          /\ modalKey' = lastCard'
          /\ modalTitle' = CardTitle(lastCard')]_vars

ModalClosesOnEscapeOrOverlay ==
    [][lastEvent' \in {"key_escape", "overlay"} => ~modalOpen']_vars

ModalOpenShowsLastCard ==
    [](modalOpen => (modalKey = lastCard /\ modalKey \in CardKeys))

\* C8 as stated: a click on a card body opens the modal with the card's key
\* and title; Escape and a click on the overlay close it; a click inside the
\* modal (its close button is inside it) or on a card's tab buttons neither
\* opens nor closes it; and an open modal shows the card clicked last.
C8_ModalProtocolAsStated ==
    /\ ModalOpensOnCardClick
    /\ ModalClosesOnEscapeOrOverlay
    /\ [][lastEvent' \in {"modal_inside", "modal_tab", "modal_close", "card_tab"}
             => modalOpen' = modalOpen]_vars
    /\ ModalOpenShowsLastCard

\* C8 amended: as stated, but a click inside the modal leaves it as it is
\* only when it is not on the close button; the close button closes the
\* modal as a click on the overlay does.
C8_ModalProtocol ==
    /\ ModalOpensOnCardClick
    /\ ModalClosesOnEscapeOrOverlay
    /\ [][lastEvent' \in {"modal_inside", "modal_tab", "card_tab"}
             => modalOpen' = modalOpen]_vars
    /\ [][lastEvent' = "modal_close" => ~modalOpen']_vars
    /\ ModalOpenShowsLastCard

\* C8 witness: the serie card was clicked after another card, then the
\* modal was clicked inside, and it stays open on serie
C8_Witness ==
    /\ modalOpen /\ modalKey = "serie" /\ lastCard = "serie"
    /\ modalTitle = CardTitle("serie")
    /\ lastEvent = "modal_inside"

ThemeFlipsOnToggle ==
    [][lastEvent' = "toggle_theme" =>
          theme' = (IF theme = "dark" THEN "light" ELSE "dark")]_vars

TwoTogglesRestore ==
    [](\A i \in 1..(Len(themeLog) - 2) :
          themeLog[i] \in {"dark", "light"} => themeLog[i + 2] = themeLog[i])

ThemeIsStoredAndApplied ==
    [](appMounted => (localTheme = <<theme>> /\ dataTheme = <<theme>>))

\* C9 as stated: the initial theme is the value stored under 'theme', or
\* dark when none is stored; a click flips dark to light and anything else to
\* dark; two clicks from dark or light restore the theme; after every change
\* the stored value and data-theme equal the theme.
C9_ThemeAsStated ==
    /\ [][(~appMounted /\ appMounted') =>
             theme' = (IF localTheme = <<>> THEN "dark" ELSE localTheme[1])]_vars
    /\ ThemeFlipsOnToggle
    /\ TwoTogglesRestore
    /\ ThemeIsStoredAndApplied

\* C9 amended: as stated, but the initial theme is dark also when the value
\* stored under 'theme' is the empty string.
C9_Theme ==
    /\ [][(~appMounted /\ appMounted') =>
             theme' = (IF localTheme \in {<<>>, <<"">>} THEN "dark"
                       ELSE localTheme[1])]_vars
    /\ ThemeFlipsOnToggle
    /\ TwoTogglesRestore
    /\ ThemeIsStoredAndApplied

\* C9 witness: started from a stored light theme, two clicks later the theme
\* is light again, stored and applied
C9_Witness ==
    /\ appMounted
    /\ themeLog = <<"light", "dark", "light">>
    /\ theme = "light" /\ localTheme = <<"light">> /\ dataTheme = <<"light">>

---------------------------------------------------------------------------
(* Claims about the request BuscaCDA sends *)

\* The requests a step has sent
NewRequests ==
    {inflight'[k] : k \in (Len(inflight') - (sent' - sent) + 1)..Len(inflight')}

\* Parameter name is sent exactly when the input is not empty, and then with
\* value
SentIffFilled(req, name, filled, value) ==
    /\ (name \in DOMAIN req) <=> filled
    /\ filled => req[name] = value

\* A numeric bound is sent exactly when its input is not blank, and then with
\* the number in it
BoundSentIffFilled(req, name, field) ==
    /\ (name \in DOMAIN req) <=> (field # EmptyInput)
    /\ field # EmptyInput => req[name] = field[1]

RequestFollowsForm(req) ==
    /\ SentIffFilled(req, "q", q # <<>>, q)
    /\ SentIffFilled(req, "natureza", natureza # <<>>, natureza)
    /\ SentIffFilled(req, "situacao", situacao # <<>>, situacao)
    /\ BoundSentIffFilled(req, "min_ano", minAno)
    /\ BoundSentIffFilled(req, "max_ano", maxAno)
    /\ BoundSentIffFilled(req, "min_saldo", minSaldo)
    /\ BoundSentIffFilled(req, "max_saldo", maxSaldo)
    /\ BoundSentIffFilled(req, "min_score", minScore)
    /\ BoundSentIffFilled(req, "max_score", maxScore)
    /\ {"sort_by", "sort_dir", "page", "page_size"} \subseteq DOMAIN req

\* C10: every request buscar() sends leaves out each filter whose input is
\* empty, carries each filter whose input is not empty with the value in the
\* input (a numeric bound of 0 included), and carries sort_by, sort_dir, page
\* and page_size
C10_RequestFollowsForm ==
    [][sent' > sent => \A req \in NewRequests : RequestFollowsForm(req)]_vars

\* C10 witness: a request in flight that carries min_ano = 0, max_saldo =
\* 2010 and no q, sent from a form with 0 in the min-ano input, 2010 in the
\* max-saldo input and nothing in the numCDA input
C10_Witness ==
    /\ minAno = <<0>> /\ q = <<>> /\ maxSaldo = <<2010>>
    /\ \E k \in 1..Len(inflight) :
          /\ "min_ano" \in DOMAIN inflight[k] /\ inflight[k].min_ano = 0
          /\ "q" \notin DOMAIN inflight[k]
          /\ inflight[k].max_saldo = 2010

---------------------------------------------------------------------------
(* Claims about the pager of BuscaCDA *)

\* The page count the pager shows
PagesShown == totalPages(total, pageSize)

\* C11: the page is at least 1 in every state, and whenever no search
\* request is in flight it is at most totalPages = max(1, ceil(total /
\* pageSize)), so the pager never shows a page beyond the last one
C11_PageWithinPages ==
    /\ page >= 1
    /\ (BuscaMounted /\ inflight = <<>>) => page <= PagesShown

\* C11 witness: Proxima has led to the second page of two and its request
\* has been answered
C11_Witness ==
    /\ BuscaMounted /\ inflight = <<>> /\ ~loading
    /\ page = 2 /\ PagesShown = 2 /\ Len(items) = 1

---------------------------------------------------------------------------
(* Claims about the answers BuscaCDA displays *)

\* The answer to the search for the form as it stands
CurrentAnswer == Search(store, NormalizeRequest(BuscarRequest(Render)))

\* Buscar was the last thing the user did, and every request has been
\* answered
BuscarSettled == BuscaMounted /\ lastEvent = "buscar" /\ inflight = <<>>

\* C12: after a click on Buscar, once every request in flight has completed,
\* in whatever order, the page is 1 and the items and the total on display
\* are those of the answer to the request for the current filters and page 1;
\* the answer to an older request does not stay on display
C12_BuscarResultShown ==
    BuscarSettled =>
        /\ page = 1
        /\ items = CurrentAnswer.items
        /\ total = CurrentAnswer.total

\* C12 witness: Buscar was clicked with '0' typed into the numCDA input,
\* every request has been answered and the 11 records that match are on
\* display
C12_Witness ==
    /\ BuscarSettled /\ ~loading
    /\ q = <<48>>
    /\ total = 11 /\ Len(items) = 11

==========================================================================
